---- MODULE Spec2Model ----
(***************************************************************************)
(* Wheel of Patterns: the CircleDivider component of src/src/App.tsx as a  *)
(* state machine.  The variables are the component's React state plus the  *)
(* painted canvas; there is one action per event handler.  Every handler   *)
(* runs to completion and React re-renders (and re-runs the painting       *)
(* effect of lines 79-88) before the next event, so an action is the       *)
(* handler together with the repaint it triggers.                          *)
(*                                                                         *)
(* Lengths are in tenths of a pixel.  Text is a sequence of one-character  *)
(* strings, so that split, trim, parseInt and the template literal are     *)
(* computed and not assumed.                                               *)
(***************************************************************************)
EXTENDS Integers, Sequences, FiniteSets, TLC

VARIABLES divisions, rules, drawingMode, drawingColor, showRuleLines,
          showOnlyPattern, currentRule, isDrawing, startPoint, drawnLines,
          undoStack, redoStack, lineThickness, freeDrawing, canvas, penPos,
          alert, thrown

vars == <<divisions, rules, drawingMode, drawingColor, showRuleLines,
          showOnlyPattern, currentRule, isDrawing, startPoint, drawnLines,
          undoStack, redoStack, lineThickness, freeDrawing, canvas, penPos,
          alert, thrown>>

\* The manual layer and its undo/redo history.
historyVars == <<drawnLines, undoStack, redoStack>>

-----------------------------------------------------------------------------
\* Bounds of the model.

\* Most lines the manual layer holds: a stroke is not begun, and not ended by
\* a commit, on a layer that long.
MaxLines == 2
\* Most snapshots the undo stack gains by resets: a reset on a stack that long
\* is not run.
MaxHist == 2
\* Most rules of the active rule set: a rule that would exceed it is not
\* submitted.
MaxRules == 3

-----------------------------------------------------------------------------
\* Program constants.

DefaultDivisions == 12
MinDivisions == 3
MaxDivisions == 36
canvasSize == 800
SnapRadiusPx == 20
dotRadiusPx == 5
\* Pixels in tenths of a pixel, the unit of every coordinate below.
Tenths(px) == px * 10
radius == Tenths(canvasSize * 2) \div 5
center == Tenths(canvasSize) \div 2
SnapRadius == Tenths(SnapRadiusPx)
dotRadius == Tenths(dotRadiusPx)
DefaultColor == "#000000"
DefaultThickness == 2
MinThickness == 1
MaxThickness == 10
InvalidRuleMessage ==
    "Invalid rule format. Please use \"start+end\" where both are valid division numbers."

NoAlert == "none"
NoPoint == [x |-> -1, y |-> -1]
Pt(px, py) == [x |-> px, y |-> py]

-----------------------------------------------------------------------------
\* Geometry.  center + radius * cos(i * 360 / n degrees), and the same with
\* sin, rounded to a tenth of a pixel, for n = 3..36 (row n - 2) and
\* i = 0..n-1 (column i + 1).

DivisionX ==
  <<
    <<7200, 2400, 2400>>,
    <<7200, 4000, 800, 4000>>,
    <<7200, 4989, 1411, 1411, 4989>>,
    <<7200, 5600, 2400, 800, 2400, 5600>>,
    <<7200, 5995, 3288, 1117, 1117, 3288, 5995>>,
    <<7200, 6263, 4000, 1737, 800, 1737, 4000, 6263>>,
    <<7200, 6451, 4556, 2400, 993, 993, 2400, 4556, 6451>>,
    <<7200, 6589, 4989, 3011, 1411, 800, 1411, 3011, 4989, 6589>>,
    <<7200, 6692, 5329, 3545, 1904, 930, 930, 1904, 3545, 5329, 6692>>,
    <<7200, 6771, 5600, 4000, 2400, 1229, 800, 1229, 2400, 4000, 5600, 6771>>,
    <<7200, 6833, 5818, 4386, 2865, 1605, 893, 893, 1605, 2865, 4386, 5818, 6833>>,
    <<7200, 6883, 5995, 4712, 3288, 2005, 1117, 800, 1117, 2005, 3288, 4712, 5995, 6883>>,
    <<7200, 6923, 6141, 4989, 3666, 2400, 1411, 870, 870, 1411, 2400, 3666, 4989, 6141, 6923>>,
    <<7200, 6956, 6263, 5225, 4000, 2775, 1737, 1044, 800, 1044, 1737, 2775, 4000, 5225, 6263,
      6956>>,
    <<7200, 6984, 6365, 5426, 4295, 3124, 2072, 1279, 854, 854, 1279, 2072, 3124, 4295, 5426,
      6365, 6984>>,
    <<7200, 7007, 6451, 5600, 4556, 3444, 2400, 1549, 993, 800, 993, 1549, 2400, 3444, 4556,
      5600, 6451, 7007>>,
    <<7200, 7027, 6525, 5750, 4786, 3736, 2715, 1833, 1186, 844, 844, 1186, 1833, 2715, 3736,
      4786, 5750, 6525, 7027>>,
    <<7200, 7043, 6589, 5881, 4989, 4000, 3011, 2119, 1411, 957, 800, 957, 1411, 2119, 3011,
      4000, 4989, 5881, 6589, 7043>>,
    <<7200, 7058, 6644, 5995, 5169, 4239, 3288, 2400, 1654, 1117, 836, 836, 1117, 1654, 2400,
      3288, 4239, 5169, 5995, 6644, 7058>>,
    <<7200, 7070, 6692, 6096, 5329, 4455, 3545, 2671, 1904, 1308, 930, 800, 930, 1308, 1904,
      2671, 3545, 4455, 5329, 6096, 6692, 7070>>,
    <<7200, 7081, 6734, 6184, 5472, 4651, 3782, 2928, 2155, 1518, 1065, 830, 830, 1065, 1518,
      2155, 2928, 3782, 4651, 5472, 6184, 6734, 7081>>,
    <<7200, 7091, 6771, 6263, 5600, 4828, 4000, 3172, 2400, 1737, 1229, 909, 800, 909, 1229,
      1737, 2400, 3172, 4000, 4828, 5600, 6263, 6771, 7091>>,
    <<7200, 7099, 6804, 6333, 5715, 4989, 4201, 3400, 2638, 1960, 1411, 1025, 825, 825, 1025,
      1411, 1960, 2638, 3400, 4201, 4989, 5715, 6333, 6804, 7099>>,
    <<7200, 7107, 6833, 6395, 5818, 5135, 4386, 3614, 2865, 2182, 1605, 1167, 893, 800, 893,
      1167, 1605, 2182, 2865, 3614, 4386, 5135, 5818, 6395, 6833, 7107>>,
    <<7200, 7114, 6860, 6451, 5911, 5267, 4556, 3814, 3082, 2400, 1804, 1326, 993, 822, 822,
      993, 1326, 1804, 2400, 3082, 3814, 4556, 5267, 5911, 6451, 6860, 7114>>,
    <<7200, 7120, 6883, 6502, 5995, 5388, 4712, 4000, 3288, 2612, 2005, 1498, 1117, 880, 800,
      880, 1117, 1498, 2005, 2612, 3288, 4000, 4712, 5388, 5995, 6502, 6883, 7120>>,
    <<7200, 7125, 6904, 6547, 6072, 5499, 4856, 4173, 3482, 2816, 2204, 1677, 1258, 968, 819,
      819, 968, 1258, 1677, 2204, 2816, 3482, 4173, 4856, 5499, 6072, 6547, 6904, 7125>>,
    <<7200, 7130, 6923, 6589, 6141, 5600, 4989, 4334, 3666, 3011, 2400, 1859, 1411, 1077, 870,
      800, 870, 1077, 1411, 1859, 2400, 3011, 3666, 4334, 4989, 5600, 6141, 6589, 6923, 7130>>,
    <<7200, 7134, 6941, 6626, 6205, 5693, 5111, 4485, 3838, 3198, 2591, 2041, 1572, 1202, 947,
      816, 816, 947, 1202, 1572, 2041, 2591, 3198, 3838, 4485, 5111, 5693, 6205, 6626, 6941,
      7134>>,
    <<7200, 7139, 6956, 6661, 6263, 5778, 5225, 4624, 4000, 3376, 2775, 2222, 1737, 1339,
      1044, 861, 800, 861, 1044, 1339, 1737, 2222, 2775, 3376, 4000, 4624, 5225, 5778, 6263,
      6661, 6956, 7139>>,
    <<7200, 7142, 6971, 6692, 6316, 5856, 5329, 4754, 4152, 3545, 2953, 2400, 1904, 1485,
      1156, 930, 814, 814, 930, 1156, 1485, 1904, 2400, 2953, 3545, 4152, 4754, 5329, 5856,
      6316, 6692, 6971, 7142>>,
    <<7200, 7146, 6984, 6721, 6365, 5928, 5426, 4876, 4295, 3705, 3124, 2574, 2072, 1635,
      1279, 1016, 854, 800, 854, 1016, 1279, 1635, 2072, 2574, 3124, 3705, 4295, 4876, 5426,
      5928, 6365, 6721, 6984, 7146>>,
    <<7200, 7149, 6996, 6747, 6410, 5995, 5516, 4989, 4430, 3856, 3288, 2742, 2237, 1789,
      1411, 1117, 915, 813, 813, 915, 1117, 1411, 1789, 2237, 2742, 3288, 3856, 4430, 4989,
      5516, 5995, 6410, 6747, 6996, 7149>>,
    <<7200, 7151, 7007, 6771, 6451, 6057, 5600, 5094, 4556, 4000, 3444, 2906, 2400, 1943,
      1549, 1229, 993, 849, 800, 849, 993, 1229, 1549, 1943, 2400, 2906, 3444, 4000, 4556,
      5094, 5600, 6057, 6451, 6771, 7007, 7151>>  >>

DivisionY ==
  <<
    <<4000, 6771, 1229>>,
    <<4000, 7200, 4000, 800>>,
    <<4000, 7043, 5881, 2119, 957>>,
    <<4000, 6771, 6771, 4000, 1229, 1229>>,
    <<4000, 6502, 7120, 5388, 2612, 880, 1498>>,
    <<4000, 6263, 7200, 6263, 4000, 1737, 800, 1737>>,
    <<4000, 6057, 7151, 6771, 5094, 2906, 1229, 849, 1943>>,
    <<4000, 5881, 7043, 7043, 5881, 4000, 2119, 957, 957, 2119>>,
    <<4000, 5730, 6911, 7167, 6418, 4902, 3098, 1582, 833, 1089, 2270>>,
    <<4000, 5600, 6771, 7200, 6771, 5600, 4000, 2400, 1229, 800, 1229, 2400>>,
    <<4000, 5487, 6634, 7177, 6992, 6122, 4766, 3234, 1878, 1008, 823, 1366, 2513>>,
    <<4000, 5388, 6502, 7120, 7120, 6502, 5388, 4000, 2612, 1498, 880, 880, 1498, 2612>>,
    <<4000, 5302, 6378, 7043, 7182, 6771, 5881, 4665, 3335, 2119, 1229, 818, 957, 1622, 2698>>,
    <<4000, 5225, 6263, 6956, 7200, 6956, 6263, 5225, 4000, 2775, 1737, 1044, 800, 1044, 1737,
      2775>>,
    <<4000, 5156, 6156, 6865, 7186, 7078, 6554, 5685, 4588, 3412, 2315, 1446, 922, 814, 1135,
      1844, 2844>>,
    <<4000, 5094, 6057, 6771, 7151, 7151, 6771, 6057, 5094, 4000, 2906, 1943, 1229, 849, 849,
      1229, 1943, 2906>>,
    <<4000, 5039, 5965, 6679, 7102, 7189, 6930, 6354, 5523, 4527, 3473, 2477, 1646, 1070, 811,
      898, 1321, 2035, 2961>>,
    <<4000, 4989, 5881, 6589, 7043, 7200, 7043, 6589, 5881, 4989, 4000, 3011, 2119, 1411, 957,
      800, 957, 1411, 2119, 3011>>,
    <<4000, 4943, 5803, 6502, 6979, 7191, 7120, 6771, 6177, 5388, 4477, 3523, 2612, 1823,
      1229, 880, 809, 1021, 1498, 2197, 3057>>,
    <<4000, 4902, 5730, 6418, 6911, 7167, 7167, 6911, 6418, 5730, 4902, 4000, 3098, 2270,
      1582, 1089, 833, 833, 1089, 1582, 2270, 3098>>,
    <<4000, 4863, 5663, 6339, 6841, 7133, 7193, 7015, 6614, 6019, 5275, 4436, 3564, 2725,
      1981, 1386, 985, 807, 867, 1159, 1661, 2337, 3137>>,
    <<4000, 4828, 5600, 6263, 6771, 7091, 7200, 7091, 6771, 6263, 5600, 4828, 4000, 3172,
      2400, 1737, 1229, 909, 800, 909, 1229, 1737, 2400, 3172>>,
    <<4000, 4796, 5542, 6191, 6702, 7043, 7194, 7143, 6895, 6466, 5881, 5178, 4401, 3599,
      2822, 2119, 1534, 1105, 857, 806, 957, 1298, 1809, 2458, 3204>>,
    <<4000, 4766, 5487, 6122, 6634, 6992, 7177, 7177, 6992, 6634, 6122, 5487, 4766, 4000,
      3234, 2513, 1878, 1366, 1008, 823, 823, 1008, 1366, 1878, 2513, 3234>>,
    <<4000, 4738, 5436, 6057, 6567, 6938, 7151, 7195, 7066, 6771, 6328, 5758, 5094, 4371,
      3629, 2906, 2242, 1672, 1229, 934, 805, 849, 1062, 1433, 1943, 2564, 3262>>,
    <<4000, 4712, 5388, 5995, 6502, 6883, 7120, 7200, 7120, 6883, 6502, 5995, 5388, 4712,
      4000, 3288, 2612, 2005, 1498, 1117, 880, 800, 880, 1117, 1498, 2005, 2612, 3288>>,
    <<4000, 4688, 5344, 5937, 6439, 6827, 7083, 7195, 7158, 6973, 6649, 6201, 5650, 5022,
      4346, 3654, 2978, 2350, 1799, 1351, 1027, 842, 805, 917, 1173, 1561, 2063, 2656, 3312>>,
    <<4000, 4665, 5302, 5881, 6378, 6771, 7043, 7182, 7182, 7043, 6771, 6378, 5881, 5302,
      4665, 4000, 3335, 2698, 2119, 1622, 1229, 957, 818, 818, 957, 1229, 1622, 2119, 2698,
      3335>>,
    <<4000, 4644, 5262, 5828, 6319, 6716, 7001, 7163, 7196, 7098, 6873, 6530, 6084, 5553,
      4958, 4324, 3676, 3042, 2447, 1916, 1470, 1127, 902, 804, 837, 999, 1284, 1681, 2172,
      2738, 3356>>,
    <<4000, 4624, 5225, 5778, 6263, 6661, 6956, 7139, 7200, 7139, 6956, 6661, 6263, 5778,
      5225, 4624, 4000, 3376, 2775, 2222, 1737, 1339, 1044, 861, 800, 861, 1044, 1339, 1737,
      2222, 2775, 3376>>,
    <<4000, 4606, 5189, 5730, 6208, 6607, 6911, 7110, 7196, 7167, 7024, 6771, 6418, 5978,
      5466, 4902, 4304, 3696, 3098, 2534, 2022, 1582, 1229, 976, 833, 804, 890, 1089, 1393,
      1792, 2270, 2811, 3394>>,
    <<4000, 4588, 5156, 5685, 6156, 6554, 6865, 7078, 7186, 7186, 7078, 6865, 6554, 6156,
      5685, 5156, 4588, 4000, 3412, 2844, 2315, 1844, 1446, 1135, 922, 814, 814, 922, 1135,
      1446, 1844, 2315, 2844, 3412>>,
    <<4000, 4571, 5124, 5641, 6105, 6502, 6818, 7043, 7171, 7197, 7120, 6942, 6671, 6313,
      5881, 5388, 4851, 4287, 3713, 3149, 2612, 2119, 1687, 1329, 1058, 880, 803, 829, 957,
      1182, 1498, 1895, 2359, 2876, 3429>>,
    <<4000, 4556, 5094, 5600, 6057, 6451, 6771, 7007, 7151, 7200, 7151, 7007, 6771, 6451,
      6057, 5600, 5094, 4556, 4000, 3444, 2906, 2400, 1943, 1549, 1229, 993, 849, 800, 849,
      993, 1229, 1549, 1943, 2400, 2906, 3444>>  >>

divisionPoint(i, n) == Pt(DivisionX[n - 2][i + 1], DivisionY[n - 2][i + 1])

\* The square of the distance: Math.sqrt is monotonic, so the comparisons of
\* snapToPoint are made on the squares.
Distance2(p, q) == (p.x - q.x) * (p.x - q.x) + (p.y - q.y) * (p.y - q.y)

\* The loop of snapToPoint from index i on: best is the index of closestPoint
\* (-1 while it is still the raw point), min2 the square of minDistance
\* (-1 for Infinity).
RECURSIVE snapLoop(_, _, _, _, _)
snapLoop(p, n, i, best, min2) ==
    IF i >= n THEN [best |-> best, min2 |-> min2]
    ELSE LET d2 == Distance2(p, divisionPoint(i, n))
         IN  IF min2 = -1 \/ d2 < min2
             THEN snapLoop(p, n, i + 1, i, d2)
             ELSE snapLoop(p, n, i + 1, best, min2)

\* snapToPoint with the threshold of line 190 exclusive.
snapToPointExclusive(p, n) ==
    LET r == snapLoop(p, n, 0, -1, -1)
    IN  IF r.best # -1 /\ r.min2 < SnapRadius * SnapRadius
        THEN divisionPoint(r.best, n)
        ELSE p

\* snapToPoint taking only the x coordinate of the closest division point.
snapToPointKeepsY(p, n) ==
    LET r == snapLoop(p, n, 0, -1, -1)
    IN  IF r.best # -1 /\ r.min2 <= SnapRadius * SnapRadius
        THEN Pt(divisionPoint(r.best, n).x, p.y)
        ELSE p

snapToPoint(p, n) ==
    LET r == snapLoop(p, n, 0, -1, -1)
    IN  IF r.best # -1 /\ r.min2 <= SnapRadius * SnapRadius
        THEN divisionPoint(r.best, n)
        ELSE p

-----------------------------------------------------------------------------
\* Text: String.split('+'), String.trim(), parseInt and `${start}+${end}`.

IsSpace(c) == c = " "
HexDigits == <<"0", "1", "2", "3", "4", "5", "6", "7", "8", "9",
               "a", "b", "c", "d", "e", "f">>
\* The value of a digit, 99 for a character that is none.
DigitVal(c) ==
    IF \E k \in 1..16 : HexDigits[k] = c
    THEN (CHOOSE k \in 1..16 : HexDigits[k] = c) - 1
    ELSE 99

\* A number, or NaN.  A missing array element (undefined) behaves as NaN in
\* every test handleAddRule makes.
NaN == [nan |-> TRUE, val |-> 0]
Num(v) == [nan |-> FALSE, val |-> v]
isNaN(v) == v.nan

RECURSIVE split(_, _)
\* text.split(sep): the pieces between the separators, at least one piece.
split(text, sep) ==
    IF \E k \in 1..Len(text) : text[k] = sep
    THEN LET k == CHOOSE j \in 1..Len(text) :
                     text[j] = sep /\ \A m \in 1..(j - 1) : text[m] # sep
         IN  <<SubSeq(text, 1, k - 1)>> \o split(SubSeq(text, k + 1, Len(text)), sep)
    ELSE <<text>>

RECURSIVE trimStart(_)
trimStart(s) ==
    IF s # <<>> /\ IsSpace(Head(s)) THEN trimStart(Tail(s)) ELSE s

RECURSIVE trimEnd(_)
trimEnd(s) ==
    IF s # <<>> /\ IsSpace(s[Len(s)]) THEN trimEnd(SubSeq(s, 1, Len(s) - 1)) ELSE s

trim(s) == trimEnd(trimStart(s))

\* The digits of s in the given radix, from the left, up to the first
\* character that is no digit: [n |-> digits read, val |-> their value].
RECURSIVE readDigits(_, _, _, _)
readDigits(s, radix, n, acc) ==
    IF s # <<>> /\ DigitVal(Head(s)) < radix
    THEN readDigits(Tail(s), radix, n + 1, acc * radix + DigitVal(Head(s)))
    ELSE [n |-> n, val |-> acc]

\* parseInt(s) with no radix: leading white space and one sign are skipped, a
\* 0x prefix selects radix 16, the longest prefix of digits is the value, and
\* no digit at all gives NaN.  -0 is 0.
parseInt(s) ==
    LET t    == trimStart(s)
        neg  == t # <<>> /\ Head(t) = "-"
        u    == IF t # <<>> /\ Head(t) \in {"-", "+"} THEN Tail(t) ELSE t
        hex  == Len(u) >= 2 /\ u[1] = "0" /\ u[2] \in {"x", "X"}
        r    == IF hex THEN readDigits(SubSeq(u, 3, Len(u)), 16, 0, 0)
                ELSE readDigits(u, 10, 0, 0)
    IN  IF r.n = 0 THEN NaN
        ELSE Num(IF neg THEN 0 - r.val ELSE r.val)

DecimalDigits == <<"0", "1", "2", "3", "4", "5", "6", "7", "8", "9">>
RECURSIVE natToString(_)
natToString(n) ==
    IF n < 10 THEN <<DecimalDigits[n + 1]>>
    ELSE natToString(n \div 10) \o <<DecimalDigits[(n % 10) + 1]>>

\* String(v) of an integer, as a template literal prints it.
numToString(v) ==
    IF v < 0 THEN <<"-">> \o natToString(0 - v) ELSE natToString(v)

\* `${start}+${end}`
ruleString(start, end) == numToString(start) \o <<"+">> \o numToString(end)

\* const [a, b] = text.split('+').map(n => parseInt(n.trim())): the first two
\* elements, a missing one being undefined.
parsePair(text) ==
    LET parts == split(text, "+")
    IN  [start  |-> parseInt(trim(parts[1])),
         offset |-> IF Len(parts) >= 2 THEN parseInt(trim(parts[2])) ELSE NaN]

-----------------------------------------------------------------------------
\* Painting.  The canvas is what drawCircle last composed (markers: how many
\* division dots and labels, 0 in pattern-only mode; ruleLines: one sequence
\* of segments per rule; userLines: the manual layer as painted) and overlay,
\* the segments stroked on top of it since.

Segment(p, q) == [from |-> p, to |-> q]
Last(s) == s[Len(s)]

\* expandRule with the first number of the rule taken for the second.
expandRuleFromStart(rule, n) ==
    LET start == parsePair(rule).start
    IN  IF isNaN(start) THEN <<>>
        ELSE [k \in 1..n |->
                 Segment(divisionPoint(k - 1, n),
                         divisionPoint(((k - 1) + start.val) % n, n))]

\* The segments drawRuleLines strokes for one rule: the loop i = 0..n-1.  A
\* rule whose offset does not parse strokes nothing (lineTo(NaN, NaN)).
expandRule(rule, n) ==
    LET offset == parsePair(rule).offset
    IN  IF isNaN(offset) THEN <<>>
        ELSE [k \in 1..n |->
                 Segment(divisionPoint(k - 1, n),
                         divisionPoint(((k - 1) + offset.val) % n, n))]

drawRuleLines(rs, n) == [k \in 1..Len(rs) |-> expandRule(rs[k], n)]

drawCircle(n, rs, showRules, onlyPattern, lines) ==
    [markers   |-> IF onlyPattern THEN 0 ELSE n,
     ruleLines |-> IF showRules THEN drawRuleLines(rs, n) ELSE <<>>,
     userLines |-> lines,
     overlay   |-> {}]

\* Where the context's current path ends after drawCircle: at the last thing
\* it put on a path (a user line, else a rule segment, else the dot of the
\* last division); drawCircle begins no path when it paints none of them.
penAfterDrawCircle(n, rs, showRules, onlyPattern, lines, pen) ==
    IF lines # <<>> THEN Last(lines).end
    ELSE IF showRules /\ rs # <<>> /\ Last(drawRuleLines(rs, n)) # <<>>
         THEN Last(Last(drawRuleLines(rs, n))).to
    ELSE IF ~onlyPattern
         THEN Pt(divisionPoint(n - 1, n).x + dotRadius, divisionPoint(n - 1, n).y)
    ELSE pen

\* The effect of lines 79-88, run after a render in which one of
\* [divisions, rules, showRuleLines, showOnlyPattern, drawnLines] changed.
Repaint ==
    /\ canvas' = drawCircle(divisions', rules', showRuleLines', showOnlyPattern',
                            drawnLines')
    /\ penPos' = penAfterDrawCircle(divisions', rules', showRuleLines',
                                    showOnlyPattern', drawnLines', penPos)

\* A handler that raises neither the alert nor an exception.
Quiet == alert' = NoAlert /\ thrown' = FALSE

-----------------------------------------------------------------------------
\* Inputs.

\* Pointer positions, in canvas coordinates: next to division point 0 (which
\* every division count has at (720, 400)) and the centre of the circle, which
\* is 320 pixels from every division point.
NearPoint0 == Pt(7180, 4050)
Centre == Pt(center, center)

DivisionCounts == MinDivisions..MaxDivisions
Colors == {DefaultColor, "#ff0000"}

\* Texts typed into the rule field.
Text03 == <<"0", "+", "3">>
Text20 == <<"2", "+", "0">>
Text115 == <<"1", "1", "+", "5">>
RuleTexts ==
    { Text03,
      <<" ", "0", " ", "+", "0", "3">>,
      Text115,
      <<"1", "2", "+", "1">>,
      <<"1", "+", "1", "2">>,
      <<"-", "1", "+", "2">>,
      <<"a", "+", "1">>,
      <<"5">>,
      <<>> }

-----------------------------------------------------------------------------
\* The state after construction: the useState initial values (lines 52-67) and
\* the first run of the painting effect.

Init ==
    /\ divisions = DefaultDivisions
    /\ rules = <<>>
    /\ drawingMode = FALSE
    /\ drawingColor = DefaultColor
    /\ showRuleLines = TRUE
    /\ showOnlyPattern = FALSE
    /\ currentRule = <<>>
    /\ isDrawing = FALSE
    /\ startPoint = NoPoint
    /\ drawnLines = <<>>
    /\ undoStack = <<>>
    /\ redoStack = <<>>
    /\ lineThickness = DefaultThickness
    /\ freeDrawing = FALSE
    /\ canvas = drawCircle(DefaultDivisions, <<>>, TRUE, FALSE, <<>>)
    /\ penPos = penAfterDrawCircle(DefaultDivisions, <<>>, TRUE, FALSE, <<>>, NoPoint)
    /\ alert = NoAlert
    /\ thrown = FALSE

-----------------------------------------------------------------------------
\* The undo/redo history as a value, and what each handler makes of it.

History == [drawnLines |-> drawnLines, undoStack |-> undoStack,
            redoStack |-> redoStack]
Hist(lines, undo, redo) == [drawnLines |-> lines, undoStack |-> undo,
                            redoStack |-> redo]
DropLast(s) == SubSeq(s, 1, Len(s) - 1)

\* undo that drops the layer it replaces instead of keeping it for redo.
undoForgetsRedo(h) ==
    IF Len(h.undoStack) > 0
    THEN Hist(Last(h.undoStack), DropLast(h.undoStack), h.redoStack)
    ELSE h

\* handleUndo (lines 278-285)
undo(h) ==
    IF Len(h.undoStack) > 0
    THEN Hist(Last(h.undoStack), DropLast(h.undoStack),
              Append(h.redoStack, h.drawnLines))
    ELSE h

\* redo that pushes the restored layer, not the replaced one, for undo.
redoPushesRestored(h) ==
    IF Len(h.redoStack) > 0
    THEN Hist(Last(h.redoStack), Append(h.undoStack, Last(h.redoStack)),
              DropLast(h.redoStack))
    ELSE h

\* handleRedo (lines 287-294)
redo(h) ==
    IF Len(h.redoStack) > 0
    THEN Hist(Last(h.redoStack), Append(h.undoStack, h.drawnLines),
              DropLast(h.redoStack))
    ELSE h

\* resetDrawing that leaves the redo stack as it is.
resetDrawingKeepsRedo(h) == Hist(<<>>, Append(h.undoStack, h.drawnLines), h.redoStack)

\* handleResetDrawing (lines 296-300)
resetDrawing(h) == Hist(<<>>, Append(h.undoStack, h.drawnLines), <<>>)

\* A commit that replaces the layer by the new line.
commitLineReplaces(h, line) == Hist(<<line>>, h.undoStack, h.redoStack)

\* The commit of stopDrawing (lines 246-252): setDrawnLines is its only
\* setter of the history.
commitLine(h, line) == Hist(Append(h.drawnLines, line), h.undoStack, h.redoStack)

SetHistory(h) ==
    /\ drawnLines' = h.drawnLines
    /\ undoStack' = h.undoStack
    /\ redoStack' = h.redoStack

-----------------------------------------------------------------------------
\* Rules.

includes(rs, r) == \E k \in 1..Len(rs) : rs[k] = r

\* A filter that stops at the first match, dropping it and what follows it.
filterOutFromMatch(rs, r) ==
    IF \E k \in 1 .. Len(rs) : rs[k] = r
    THEN SubSeq(rs, 1, (CHOOSE k \in 1 .. Len(rs) :
                           rs[k] = r /\ \A j \in 1 .. k - 1 : rs[j] # r) - 1)
    ELSE rs

RECURSIVE filterOut(_, _)
\* rules.filter(rule => rule !== ruleToRemove)
filterOut(rs, r) ==
    IF rs = <<>> THEN <<>>
    ELSE IF Head(rs) = r THEN filterOut(Tail(rs), r)
    ELSE <<Head(rs)>> \o filterOut(Tail(rs), r)

\* The test of line 263 with <= for < on the start.
validRuleInclusive(p, n) ==
    /\ ~isNaN(p.start)
    /\ ~isNaN(p.offset)
    /\ p.start.val >= 0
    /\ p.offset.val >= 0
    /\ p.start.val <= n
    /\ p.offset.val < n

\* The test of line 263.
validRule(p, n) ==
    /\ ~isNaN(p.start)
    /\ ~isNaN(p.offset)
    /\ p.start.val >= 0
    /\ p.offset.val >= 0
    /\ p.start.val < n
    /\ p.offset.val < n

\* What handleAddRule (lines 261-272) makes of the rule set, the text field
\* and the alert.
addRule(rs, text, n) ==
    LET p == parsePair(text)
    IN  IF validRule(p, n)
        THEN LET newRule == ruleString(p.start.val, p.offset.val)
             IN  IF ~includes(rs, newRule)
                 THEN [rules |-> Append(rs, newRule), currentRule |-> <<>>,
                       alert |-> NoAlert, added |-> TRUE]
                 ELSE [rules |-> rs, currentRule |-> text, alert |-> NoAlert,
                       added |-> FALSE]
        ELSE [rules |-> rs, currentRule |-> text, alert |-> InvalidRuleMessage,
              added |-> FALSE]

-----------------------------------------------------------------------------
\* The handlers.  The controls of the drawing panel are rendered only in
\* drawing mode and those of the divisions and rules panel only outside it
\* (lines 385-477).  The Undo and Redo buttons are disabled on an empty stack
\* (lines 419-420); the handlers make the same test themselves, and the model
\* lets them run so that their no-op branch is part of it.

\* The divisions slider (lines 428-435); a change event carries a new value.
setDivisions(n) ==
    /\ ~drawingMode
    /\ n \in DivisionCounts
    /\ n # divisions
    /\ divisions' = n
    /\ UNCHANGED <<rules, drawingMode, drawingColor, showRuleLines,
                   showOnlyPattern, currentRule, isDrawing, startPoint,
                   drawnLines, undoStack, redoStack, lineThickness, freeDrawing>>
    /\ Repaint
    /\ Quiet

\* The rule text field (lines 451-457).
setCurrentRule(text) ==
    /\ ~drawingMode
    /\ currentRule' = text
    /\ UNCHANGED <<divisions, rules, drawingMode, drawingColor, showRuleLines,
                   showOnlyPattern, isDrawing, startPoint, drawnLines, undoStack,
                   redoStack, lineThickness, freeDrawing, canvas, penPos>>
    /\ Quiet

\* Add Rule treated as an edit of the drawing: it also empties the redo stack.
handleAddRuleClearsRedo ==
    LET r == addRule(rules, currentRule, divisions)
    IN  /\ ~drawingMode
        /\ r.added => Len(rules) < MaxRules
        /\ rules' = r.rules
        /\ currentRule' = r.currentRule
        /\ alert' = r.alert
        /\ thrown' = FALSE
        /\ redoStack' = <<>>
        /\ UNCHANGED <<divisions, drawingMode, drawingColor, showRuleLines,
                       showOnlyPattern, isDrawing, startPoint, drawnLines,
                       undoStack, lineThickness, freeDrawing>>
        /\ IF r.added THEN Repaint ELSE UNCHANGED <<canvas, penPos>>

handleAddRule ==
    LET r == addRule(rules, currentRule, divisions)
    IN  /\ ~drawingMode
        /\ r.added => Len(rules) < MaxRules
        /\ rules' = r.rules
        /\ currentRule' = r.currentRule
        /\ alert' = r.alert
        /\ thrown' = FALSE
        /\ UNCHANGED <<divisions, drawingMode, drawingColor, showRuleLines,
                       showOnlyPattern, isDrawing, startPoint, drawnLines,
                       undoStack, redoStack, lineThickness, freeDrawing>>
        /\ IF r.added THEN Repaint ELSE UNCHANGED <<canvas, penPos>>

\* The Remove button of a listed rule (lines 466-471).  filter returns a new
\* array, so the painting effect runs.
handleRemoveRule(ruleToRemove) ==
    /\ ~drawingMode
    /\ rules' = filterOut(rules, ruleToRemove)
    /\ UNCHANGED <<divisions, drawingMode, drawingColor, showRuleLines,
                   showOnlyPattern, currentRule, isDrawing, startPoint,
                   drawnLines, undoStack, redoStack, lineThickness, freeDrawing>>
    /\ Repaint
    /\ Quiet

toggleDrawingMode ==
    /\ drawingMode' = ~drawingMode
    /\ UNCHANGED <<divisions, rules, drawingColor, showRuleLines, showOnlyPattern,
                   currentRule, isDrawing, startPoint, drawnLines, undoStack,
                   redoStack, lineThickness, freeDrawing, canvas, penPos>>
    /\ Quiet

toggleFreeDrawing ==
    /\ drawingMode
    /\ freeDrawing' = ~freeDrawing
    /\ UNCHANGED <<divisions, rules, drawingMode, drawingColor, showRuleLines,
                   showOnlyPattern, currentRule, isDrawing, startPoint, drawnLines,
                   undoStack, redoStack, lineThickness, canvas, penPos>>
    /\ Quiet

setDrawingColor(c) ==
    /\ drawingMode
    /\ c # drawingColor
    /\ drawingColor' = c
    /\ UNCHANGED <<divisions, rules, drawingMode, showRuleLines, showOnlyPattern,
                   currentRule, isDrawing, startPoint, drawnLines, undoStack,
                   redoStack, lineThickness, freeDrawing, canvas, penPos>>
    /\ Quiet

setLineThickness(t) ==
    /\ drawingMode
    /\ t \in MinThickness..MaxThickness
    /\ t # lineThickness
    /\ lineThickness' = t
    /\ UNCHANGED <<divisions, rules, drawingMode, drawingColor, showRuleLines,
                   showOnlyPattern, currentRule, isDrawing, startPoint, drawnLines,
                   undoStack, redoStack, freeDrawing, canvas, penPos>>
    /\ Quiet

toggleShowRuleLines ==
    /\ showRuleLines' = ~showRuleLines
    /\ UNCHANGED <<divisions, rules, drawingMode, drawingColor, showOnlyPattern,
                   currentRule, isDrawing, startPoint, drawnLines, undoStack,
                   redoStack, lineThickness, freeDrawing>>
    /\ Repaint
    /\ Quiet

toggleShowOnlyPattern ==
    /\ showOnlyPattern' = ~showOnlyPattern
    /\ UNCHANGED <<divisions, rules, drawingMode, drawingColor, showRuleLines,
                   currentRule, isDrawing, startPoint, drawnLines, undoStack,
                   redoStack, lineThickness, freeDrawing>>
    /\ Repaint
    /\ Quiet

\* onMouseDown without the test of the drawing mode.
startDrawingIgnoresMode(p) ==
    /\ Len(drawnLines) < MaxLines
    /\ isDrawing' = TRUE
    /\ IF freeDrawing
       THEN /\ penPos' = p
            /\ UNCHANGED startPoint
       ELSE /\ startPoint' = snapToPoint(p, divisions)
            /\ UNCHANGED penPos
    /\ UNCHANGED <<divisions, rules, drawingMode, drawingColor, showRuleLines,
                   showOnlyPattern, currentRule, drawnLines, undoStack, redoStack,
                   lineThickness, freeDrawing, canvas>>
    /\ Quiet

\* onMouseDown (lines 193-211).
startDrawing(p) ==
    /\ Len(drawnLines) < MaxLines
    /\ IF ~drawingMode
       THEN UNCHANGED <<isDrawing, startPoint, penPos>>
       ELSE /\ isDrawing' = TRUE
            /\ IF freeDrawing
               THEN \* beginPath(); moveTo(x, y)
                    /\ penPos' = p
                    /\ UNCHANGED startPoint
               ELSE /\ startPoint' = snapToPoint(p, divisions)
                    /\ UNCHANGED penPos
    /\ UNCHANGED <<divisions, rules, drawingMode, drawingColor, showRuleLines,
                   showOnlyPattern, currentRule, drawnLines, undoStack, redoStack,
                   lineThickness, freeDrawing, canvas>>
    /\ Quiet

\* onMouseMove (lines 213-232).  In freehand mode lineTo and stroke paint the
\* segment from the end of the path (lineTo on an empty path only moves
\* there).  In point-to-point mode drawCircle repaints and the preview is
\* stroked on top; startPoint!.x of a null startPoint throws a TypeError
\* after drawCircle() and beginPath() have run.
draw(p) ==
    /\ IF ~isDrawing \/ ~drawingMode
       THEN UNCHANGED <<canvas, penPos>> /\ thrown' = FALSE
       ELSE IF freeDrawing
       THEN /\ canvas' = [canvas EXCEPT !.overlay =
                             IF penPos = NoPoint THEN @
                             ELSE @ \cup {Segment(penPos, p)}]
            /\ penPos' = p
            /\ thrown' = FALSE
       ELSE IF startPoint = NoPoint
       THEN /\ canvas' = drawCircle(divisions, rules, showRuleLines,
                                    showOnlyPattern, drawnLines)
            /\ penPos' = NoPoint
            /\ thrown' = TRUE
       ELSE /\ canvas' = [drawCircle(divisions, rules, showRuleLines,
                                     showOnlyPattern, drawnLines)
                             EXCEPT !.overlay =
                                 {Segment(startPoint, snapToPoint(p, divisions))}]
            /\ penPos' = snapToPoint(p, divisions)
            /\ thrown' = FALSE
    /\ alert' = NoAlert
    /\ UNCHANGED <<divisions, rules, drawingMode, drawingColor, showRuleLines,
                   showOnlyPattern, currentRule, isDrawing, startPoint, drawnLines,
                   undoStack, redoStack, lineThickness, freeDrawing>>

\* The DrawnLine of lines 246-251.
newLine(start, end, color, thickness) ==
    [start |-> start, end |-> end, color |-> color, thickness |-> thickness]

\* onMouseUp and onMouseLeave (lines 234-259).  A commit changes drawnLines,
\* so the painting effect runs after the handler's beginPath().
stopDrawing(p) ==
    LET commits == isDrawing /\ ~freeDrawing /\ startPoint # NoPoint
    IN  /\ commits => Len(drawnLines) < MaxLines
        /\ IF ~isDrawing
           THEN UNCHANGED <<isDrawing, startPoint, drawnLines, undoStack,
                            redoStack, canvas, penPos>>
           ELSE /\ isDrawing' = FALSE
                /\ startPoint' = NoPoint
                /\ IF commits
                   THEN SetHistory(commitLine(History,
                            newLine(startPoint, snapToPoint(p, divisions),
                                    drawingColor, lineThickness)))
                   ELSE UNCHANGED <<drawnLines, undoStack, redoStack>>
        /\ UNCHANGED <<divisions, rules, drawingMode, drawingColor, showRuleLines,
                       showOnlyPattern, currentRule, lineThickness, freeDrawing>>
        /\ IF ~isDrawing THEN TRUE
           ELSE IF commits THEN Repaint
           ELSE penPos' = NoPoint /\ UNCHANGED canvas
        /\ Quiet

\* The Undo button.  A restored snapshot is another array than the current
\* one, so the painting effect runs.
handleUndo ==
    /\ drawingMode
    /\ SetHistory(undo(History))
    /\ UNCHANGED <<divisions, rules, drawingMode, drawingColor, showRuleLines,
                   showOnlyPattern, currentRule, isDrawing, startPoint,
                   lineThickness, freeDrawing>>
    /\ IF Len(undoStack) > 0 THEN Repaint ELSE UNCHANGED <<canvas, penPos>>
    /\ Quiet

\* The Redo button.
handleRedo ==
    /\ drawingMode
    /\ SetHistory(redo(History))
    /\ UNCHANGED <<divisions, rules, drawingMode, drawingColor, showRuleLines,
                   showOnlyPattern, currentRule, isDrawing, startPoint,
                   lineThickness, freeDrawing>>
    /\ IF Len(redoStack) > 0 THEN Repaint ELSE UNCHANGED <<canvas, penPos>>
    /\ Quiet

\* The Reset Drawing button.
handleResetDrawing ==
    /\ drawingMode
    /\ Len(undoStack) < MaxHist
    /\ SetHistory(resetDrawing(History))
    /\ UNCHANGED <<divisions, rules, drawingMode, drawingColor, showRuleLines,
                   showOnlyPattern, currentRule, isDrawing, startPoint,
                   lineThickness, freeDrawing>>
    /\ Repaint
    /\ Quiet

\* Reset All without setRules([]).
handleResetAllKeepsRules ==
    /\ Len(undoStack) < MaxHist
    /\ divisions' = DefaultDivisions
    /\ drawingMode' = FALSE
    /\ drawingColor' = DefaultColor
    /\ showRuleLines' = TRUE
    /\ showOnlyPattern' = FALSE
    /\ SetHistory(resetDrawing(History))
    /\ UNCHANGED <<rules, currentRule, isDrawing, startPoint, lineThickness,
                   freeDrawing>>
    /\ Repaint
    /\ Quiet

\* The Reset All button (lines 302-310), rendered in both modes.
handleResetAll ==
    /\ Len(undoStack) < MaxHist
    /\ divisions' = DefaultDivisions
    /\ rules' = <<>>
    /\ drawingMode' = FALSE
    /\ drawingColor' = DefaultColor
    /\ showRuleLines' = TRUE
    /\ showOnlyPattern' = FALSE
    /\ SetHistory(resetDrawing(History))
    /\ UNCHANGED <<currentRule, isDrawing, startPoint, lineThickness, freeDrawing>>
    /\ Repaint
    /\ Quiet

\* The image toDataURL reads (line 316): the canvas as it is painted.
exportedImage == canvas

\* The Save as PNG button (lines 312-319): a read of the canvas.
saveCanvasAsPNG ==
    /\ UNCHANGED <<divisions, rules, drawingMode, drawingColor, showRuleLines,
                   showOnlyPattern, currentRule, isDrawing, startPoint, drawnLines,
                   undoStack, redoStack, lineThickness, freeDrawing, canvas, penPos>>
    /\ Quiet

-----------------------------------------------------------------------------
\* The rules a Remove button can name: the listed ones.
ListedRules == {rules[k] : k \in 1..Len(rules)}

\* Every handler, with few inputs each: one pointer position for each mouse
\* event, two stops of the slider, one rule text, two colours, two
\* thicknesses.  The specifications below take the handlers of one part of
\* the component each, with more inputs.
Next ==
    \/ \E n \in {MinDivisions, DefaultDivisions} : setDivisions(n)
    \/ \E text \in {Text03} : setCurrentRule(text)
    \/ handleAddRule
    \/ \E r \in ListedRules : handleRemoveRule(r)
    \/ toggleDrawingMode
    \/ toggleFreeDrawing
    \/ \E c \in Colors : setDrawingColor(c)
    \/ \E t \in {MinThickness, DefaultThickness} : setLineThickness(t)
    \/ toggleShowRuleLines
    \/ toggleShowOnlyPattern
    \/ \E p \in {NearPoint0} : startDrawing(p)
    \/ \E p \in {Centre} : draw(p)
    \/ \E p \in {NearPoint0} : stopDrawing(p)
    \/ handleUndo
    \/ handleRedo
    \/ handleResetDrawing
    \/ handleResetAll
    \/ saveCanvasAsPNG

Spec == Init /\ [][Next]_vars

\* The manual layer and its history, with two lines to tell apart: a stroke
\* begins next to division point 0 and ends there or at the centre.
NextHistory ==
    \/ toggleDrawingMode
    \/ \E p \in {NearPoint0} : startDrawing(p)
    \/ \E p \in {NearPoint0, Centre} : stopDrawing(p)
    \/ handleUndo
    \/ handleRedo
    \/ handleResetDrawing
    \/ handleResetAll

SpecHistory == Init /\ [][NextHistory]_vars

\* The rule handlers, with every text of RuleTexts and four stops of the
\* slider.
NextRules ==
    \/ \E n \in {MinDivisions, DefaultDivisions, DefaultDivisions + 1, MaxDivisions} :
           setDivisions(n)
    \/ \E text \in RuleTexts : setCurrentRule(text)
    \/ handleAddRule
    \/ \E r \in ListedRules : handleRemoveRule(r)
    \/ handleResetAll

SpecRules == Init /\ [][NextRules]_vars

\* Reset All after changes of everything it resets: one stop of the slider,
\* one rule text, both visibility flags, strokes of one line and a reset.
NextReset ==
    \/ \E n \in {MinDivisions} : setDivisions(n)
    \/ \E text \in {Text03} : setCurrentRule(text)
    \/ handleAddRule
    \/ toggleDrawingMode
    \/ toggleShowRuleLines
    \/ toggleShowOnlyPattern
    \/ \E p \in {NearPoint0} : startDrawing(p)
    \/ \E p \in {Centre} : stopDrawing(p)
    \/ handleUndo
    \/ handleResetDrawing
    \/ handleResetAll

SpecReset == Init /\ [][NextReset]_vars

\* The painting of the rule lines, with every division count of the slider.
NextExpand ==
    \/ \E n \in DivisionCounts : setDivisions(n)
    \/ \E text \in {Text03, Text20, Text115} : setCurrentRule(text)
    \/ handleAddRule
    \/ \E r \in ListedRules : handleRemoveRule(r)
    \/ toggleShowRuleLines

SpecExpand == Init /\ [][NextExpand]_vars

\* Strokes in both modes, with the mode, the colour and the thickness
\* changing between and during them: a stroke begins next to division
\* point 0 and moves to and ends at the centre.
NextStroke ==
    \/ toggleDrawingMode
    \/ toggleFreeDrawing
    \/ \E c \in Colors : setDrawingColor(c)
    \/ \E t \in {MinThickness, DefaultThickness} : setLineThickness(t)
    \/ \E p \in {NearPoint0} : startDrawing(p)
    \/ \E p \in {Centre} : draw(p)
    \/ \E p \in {Centre} : stopDrawing(p)
    \/ saveCanvasAsPNG

SpecStroke == Init /\ [][NextStroke]_vars

-----------------------------------------------------------------------------
\* Properties.

HistoryNext == Hist(drawnLines', undoStack', redoStack')

\* A step in which a stroke ends and the manual layer gains a line.
CommitStep ==
    /\ isDrawing
    /\ ~isDrawing'
    /\ Len(drawnLines') = Len(drawnLines) + 1

\* C1: a committed point-to-point stroke is one undoable step: the stroke
\* pushes the layer it found onto the undo stack, and an undo right after it
\* gives that layer back.
C1_StrokeIsUndoable ==
    [][CommitStep =>
          /\ undoStack' = Append(undoStack, drawnLines)
          /\ undo(HistoryNext).drawnLines = drawnLines]_vars

\* C2: linear history: right after a new edit of the manual layer (a committed
\* stroke, Reset Drawing, Reset All) the redo stack is empty.
C2_EditClearsRedo ==
    [][(CommitStep \/ handleResetDrawing \/ handleResetAll)
          => redoStack' = <<>>]_vars

\* C3: undo on a non-empty undo stack makes the popped top the manual layer,
\* takes exactly the top off the undo stack and puts the replaced layer on top
\* of the redo stack; on an empty undo stack it changes none of the three.
C3_Undo ==
    [][handleUndo =>
          IF undoStack # <<>>
          THEN /\ drawnLines' = undoStack[Len(undoStack)]
               /\ undoStack' = SubSeq(undoStack, 1, Len(undoStack) - 1)
               /\ redoStack' = redoStack \o <<drawnLines>>
          ELSE UNCHANGED historyVars]_vars

\* An undo has run: the redo stack holds the layer it replaced.
C3_Witness == redoStack # <<>> /\ drawingMode /\ undoStack = <<>>

\* C4: redo is the inverse of undo: a redo after an undo step from a non-empty
\* undo stack, and an undo after a redo step from a non-empty redo stack, give
\* back manual layer, undo stack and redo stack; a redo on an empty redo stack
\* changes none of them.
C4_RedoInvertsUndo ==
    [][/\ (handleUndo /\ undoStack # <<>>) => redo(HistoryNext) = History
       /\ (handleRedo /\ redoStack # <<>>) => undo(HistoryNext) = History
       /\ (handleRedo /\ redoStack = <<>>) => UNCHANGED historyVars]_vars

\* An undo has replaced an empty layer by a layer with a line: a redo is due.
C4_Witness ==
    /\ redoStack # <<>>
    /\ Last(redoStack) = <<>>
    /\ drawnLines # <<>>

\* C5: after Reset Drawing the manual layer and the redo stack are empty and
\* the undo stack is the old one with the old layer on top, so that one undo
\* brings back every line.
C5_ResetDrawing ==
    [][handleResetDrawing =>
          /\ drawnLines' = <<>>
          /\ redoStack' = <<>>
          /\ undoStack' = undoStack \o <<drawnLines>>
          /\ undo(HistoryNext).drawnLines = drawnLines]_vars

\* A layer with lines has been reset in drawing mode.
C5_Witness ==
    /\ drawingMode
    /\ drawnLines = <<>>
    /\ redoStack = <<>>
    /\ undoStack # <<>>
    /\ Last(undoStack) # <<>>

\* C6: after Reset All the division count is 12, the rule set and the manual
\* layer are empty, rule lines are shown and pattern-only is off; the manual
\* layer and the stacks are what Reset Drawing makes of them.
C6_ResetAll ==
    [][handleResetAll =>
          /\ divisions' = 12
          /\ rules' = <<>>
          /\ drawnLines' = <<>>
          /\ showRuleLines' = TRUE
          /\ showOnlyPattern' = FALSE
          /\ redoStack' = <<>>
          /\ undoStack' = undoStack \o <<drawnLines>>]_vars

\* Everything is at its default outside drawing mode with a reset layer of
\* lines on the undo stack and the rule text still in the field.
C6_Witness ==
    /\ ~drawingMode
    /\ divisions = 12
    /\ rules = <<>>
    /\ drawnLines = <<>>
    /\ showRuleLines
    /\ ~showOnlyPattern
    /\ undoStack # <<>>
    /\ Last(undoStack) # <<>>
    /\ currentRule = Text03

\* C7: every rule of the active set has 0 <= start < N and 0 <= offset < N for
\* the current division count N.
C7_RulesInRange ==
    \A k \in 1..Len(rules) :
        LET p == parsePair(rules[k])
        IN  /\ ~isNaN(p.start) /\ ~isNaN(p.offset)
            /\ 0 <= p.start.val /\ p.start.val < divisions
            /\ 0 <= p.offset.val /\ p.offset.val < divisions

\* The canonical form "<start>+<offset>" of a text both of whose numbers parse.
Canonical(text) ==
    LET p == parsePair(text)
    IN  numToString(p.start.val) \o <<"+">> \o numToString(p.offset.val)
BothParse(text) ==
    ~isNaN(parsePair(text).start) /\ ~isNaN(parsePair(text).offset)

\* C8: the rule set never holds a rule string twice, and submitting a text
\* whose canonical form is already in the set leaves the set unchanged and
\* raises no alert.
C8_NoDuplicateRules ==
    /\ [](\A i, j \in 1..Len(rules) : i # j => rules[i] # rules[j])
    /\ [][(handleAddRule /\ BothParse(currentRule)
              /\ \E k \in 1..Len(rules) : rules[k] = Canonical(currentRule))
          => (rules' = rules /\ alert' = NoAlert)]_vars

\* "0+3" is in the set and " 0 +03", another spelling of it, is in the field.
C8_Witness ==
    /\ currentRule = <<" ", "0", " ", "+", "0", "3">>
    /\ \E k \in 1..Len(rules) : rules[k] = Text03
    /\ alert = NoAlert

\* A submission fails validation when a number does not parse, is negative or
\* is not below the division count.
FailsValidation(text, n) ==
    LET p == parsePair(text)
    IN  \/ isNaN(p.start)
        \/ isNaN(p.offset)
        \/ p.start.val < 0
        \/ p.offset.val < 0
        \/ p.start.val >= n
        \/ p.offset.val >= n

\* C9: a submission that fails validation leaves the rule set unchanged and
\* raises the alert.
C9_InvalidRuleRejected ==
    [][(handleAddRule /\ FailsValidation(currentRule, divisions))
          => (rules' = rules /\ alert' = InvalidRuleMessage)]_vars

\* "12+1" was submitted with 12 divisions and a rule in the set.
C9_Witness ==
    /\ alert = InvalidRuleMessage
    /\ currentRule = <<"1", "2", "+", "1">>
    /\ divisions = 12
    /\ rules # <<>>

\* C10: for every rule of the set the canvas holds exactly N segments, the
\* i-th from division point i to division point (i + offset) mod N; "0+3"
\* with N = 12 begins with (0, 3) and ends with (11, 2); offset 0 gives N
\* segments of length zero.
C10_ExpandRule ==
    showRuleLines =>
        /\ Len(canvas.ruleLines) = Len(rules)
        /\ \A k \in 1..Len(rules) :
               LET segs == canvas.ruleLines[k]
                   offset == parsePair(rules[k]).offset.val
               IN  /\ Len(segs) = divisions
                   /\ \A i \in 0..(divisions - 1) :
                          /\ segs[i + 1].from = divisionPoint(i, divisions)
                          /\ segs[i + 1].to =
                                 divisionPoint((i + offset) % divisions, divisions)
                   /\ (rules[k] = Text03 /\ divisions = 12) =>
                          /\ segs[1] = Segment(divisionPoint(0, 12), divisionPoint(3, 12))
                          /\ segs[12] = Segment(divisionPoint(11, 12), divisionPoint(2, 12))
                   /\ offset = 0 => \A i \in 1..divisions : segs[i].from = segs[i].to

\* "0+3" and "2+0" are painted with 12 divisions.
C10_Witness ==
    /\ showRuleLines
    /\ divisions = 12
    /\ rules = <<Text03, Text20>>
    /\ Len(canvas.ruleLines) = 2

\* The pointer positions of the mouse events.
MousePoints == {NearPoint0, Centre}

\* C11: ending a stroke in point-to-point mode appends exactly one line at the
\* end of the manual layer, from the snapped point recorded when the stroke
\* began to the snapped release point, in the colour and thickness current at
\* the release; the earlier lines keep content and order.
C11_StrokeCommitsOneLine ==
    /\ [][\A p \in MousePoints :
              (startDrawing(p) /\ drawingMode /\ ~freeDrawing)
                  => startPoint' = snapToPoint(p, divisions)]_vars
    /\ [][\A p \in MousePoints :
              (stopDrawing(p) /\ isDrawing /\ ~freeDrawing)
                  => /\ startPoint # NoPoint
                     /\ drawnLines' = drawnLines \o
                            <<[start |-> startPoint,
                               end |-> snapToPoint(p, divisions),
                               color |-> drawingColor,
                               thickness |-> lineThickness]>>]_vars

\* C12: a mouse down while drawing mode is off changes nothing: an idle state
\* stays idle, no start point is recorded, manual layer, stacks and canvas
\* are unchanged; and a mouse move or mouse up in an idle state commits
\* nothing.
C12_DisabledBeginStroke ==
    /\ [][\A p \in MousePoints :
              (startDrawing(p) /\ ~drawingMode)
                  => /\ UNCHANGED <<isDrawing, startPoint, drawnLines, undoStack,
                                    redoStack, canvas, penPos>>
                     /\ ~isDrawing => ~isDrawing']_vars
    /\ [][\A p \in MousePoints :
              ((draw(p) \/ stopDrawing(p)) /\ ~isDrawing)
                  => (UNCHANGED <<isDrawing, startPoint, drawnLines, undoStack,
                                  redoStack>>)]_vars

\* Drawing mode is off and no stroke is in progress, after a line was drawn.
C12_Witness ==
    /\ ~drawingMode
    /\ ~isDrawing
    /\ startPoint = NoPoint
    /\ Len(drawnLines) = 1

\* C13: in every state with no stroke in progress the surface that
\* saveCanvasAsPNG reads is the composition of the committed state (division
\* count, rule set, visibility flags, manual layer): it holds no preview
\* segment and no stroke paint that is absent from the manual layer.
C13_ExportIsCommitted ==
    ~isDrawing =>
        exportedImage = drawCircle(divisions, rules, showRuleLines,
                                   showOnlyPattern, drawnLines)

\* Pointer positions for the snapping handlers, at N = 12 relative to division
\* point 0 = (720, 400): on the point, 2 px off, exactly 20 px off, 20.1 px
\* off; and the canvas centre and a position 3.3 px from the bottom point
\* (400, 720).
OnPoint0 == Pt(7200, 4000)

AtSnapRadius == Pt(7400, 4000)

BeyondSnapRadius == Pt(7401, 4000)

NearBottom == Pt(4030, 7180)

SnapPointers ==
    {OnPoint0, NearPoint0, AtSnapRadius, BeyondSnapRadius, Centre, NearBottom}

\* The snapping handlers: the drawing mode checkbox, the divisions slider
\* over its whole range, and mouse down at the snap pointers.
NextSnap ==
    \/ toggleDrawingMode
    \/ \E n \in DivisionCounts : setDivisions(n)
    \/ \E p \in SnapPointers : startDrawing(p)

SpecSnap == Init /\ [][NextSnap]_vars

\* The division points of a circle of n divisions.
DivisionPoints(n) == {divisionPoint(i, n) : i \in 0 .. n - 1}

\* The division point closest to p, the lowest index winning among equally
\* distant ones.
Closest(p, n) ==
    LET i == CHOOSE i \in 0 .. n - 1 :
                 \A j \in 0 .. n - 1 :
                     \/ Distance2(p, divisionPoint(i, n))
                            < Distance2(p, divisionPoint(j, n))
                     \/ /\ Distance2(p, divisionPoint(i, n))
                              = Distance2(p, divisionPoint(j, n))
                        /\ i <= j
    IN  divisionPoint(i, n)

\* A mouse down at p that records its snapped position.
SnapStep(p) == startDrawing(p) /\ drawingMode /\ ~freeDrawing

\* C14: for every raw point and every N in 3..36 the snapped point is the
\* division point of minimal distance to the raw point when that distance is
\* at most 20 px, the lowest index winning among equally distant points, and
\* is the raw point when every division point is farther than 20 px.
C14_SnapToClosest ==
    [][\A p \in SnapPointers :
          SnapStep(p) =>
              startPoint' =
                  IF Distance2(p, Closest(p, divisions)) <= SnapRadius * SnapRadius
                  THEN Closest(p, divisions)
                  ELSE p]_vars

\* A stroke begun 3.3 px from the bottom point of a circle of 36 divisions
\* has that division point as its start.
C14_Witness ==
    /\ isDrawing
    /\ divisions = MaxDivisions
    /\ startPoint = Pt(4000, 7200)

\* C15 as stated: whenever the snapped point is within 20 px of the raw point
\* it is a division point.
C15_NearResultIsDivisionPoint ==
    [][\A p \in SnapPointers :
          (SnapStep(p) /\ Distance2(startPoint', p) <= SnapRadius * SnapRadius)
              => startPoint' \in DivisionPoints(divisions)]_vars

\* C15 amended: a snapped point that differs from the raw point is a division
\* point within 20 px of the raw point.
C15_MovedResultIsDivisionPoint ==
    [][\A p \in SnapPointers :
          (SnapStep(p) /\ startPoint' # p)
              => /\ startPoint' \in DivisionPoints(divisions)
                 /\ Distance2(startPoint', p) <= SnapRadius * SnapRadius]_vars

\* A stroke begun on a circle of 3 divisions starts at division point 0, the
\* snapped position of the pointers within 20 px of it.
C15_Witness ==
    /\ isDrawing
    /\ divisions = MinDivisions
    /\ startPoint = OnPoint0

\* The rule strings handed to handleRemoveRule: the canonical strings of the
\* three texts, listed or not.
RemovableRules == {ruleString(0, 3), ruleString(2, 0), ruleString(11, 5)}

\* The rule handlers: the divisions slider at three stops, the rule text
\* field, Add Rule, and the removal of a rule string.
NextRemove ==
    \/ \E n \in {MinDivisions, DefaultDivisions, MaxDivisions} : setDivisions(n)
    \/ \E text \in {Text03, Text20, Text115} : setCurrentRule(text)
    \/ handleAddRule
    \/ \E r \in RemovableRules : handleRemoveRule(r)

SpecRemove == Init /\ [][NextRemove]_vars

\* C16: removing a rule string that is in the rule set deletes that rule and
\* only that rule, the other rules keeping their order; removing a string
\* that is not in the rule set leaves the rule set unchanged.
C16_RemoveExactRule ==
    [][\A r \in RemovableRules :
          handleRemoveRule(r) =>
              IF \E k \in 1 .. Len(rules) : rules[k] = r
              THEN \E k \in 1 .. Len(rules) :
                       /\ rules[k] = r
                       /\ rules' = SubSeq(rules, 1, k - 1)
                                       \o SubSeq(rules, k + 1, Len(rules))
              ELSE rules' = rules]_vars

\* The rule set [0+3, 11+5] with an empty text field, as it is after the
\* removal of the middle rule of [0+3, 2+0, 11+5].
C16_Witness ==
    /\ rules = <<ruleString(0, 3), ruleString(11, 5)>>
    /\ currentRule = <<>>
    /\ divisions = MaxDivisions

\* C17: no handler throws, and whenever draw runs its point-to-point branch
\* (stroke in progress, drawing mode on, freehand off) a start point has been
\* recorded, so the preview never reads a missing start point.
C17_PreviewHasStartPoint ==
    /\ [](~thrown)
    /\ [][\A p \in MousePoints :
              (draw(p) /\ isDrawing /\ drawingMode /\ ~freeDrawing)
                  => startPoint # NoPoint]_vars

\* Rule texts that are not of the form <integer>+<integer>: a third section,
\* a token with a trailing letter, a fractional token.
Text1p2p3 == <<"1", "+", "2", "+", "3">>

Text3xp1 == <<"3", "x", "+", "1">>

Text1d5p2 == <<"1", ".", "5", "+", "2">>

Text12 == <<"1", "+", "2">>

ParseTexts == {Text1p2p3, Text3xp1, Text1d5p2, Text12, Text03}

\* The rule handlers with the texts above: the divisions slider at three
\* stops, the rule text field, Add Rule and Remove.
NextParse ==
    \/ \E n \in {MinDivisions, DefaultDivisions, MaxDivisions} : setDivisions(n)
    \/ \E text \in ParseTexts : setCurrentRule(text)
    \/ handleAddRule
    \/ \E r \in ListedRules : handleRemoveRule(r)

SpecParse == Init /\ [][NextParse]_vars

\* A token that is a non-negative decimal integer below n: digits only, at
\* least one, spaces around them aside.
IsIndex(token, n) ==
    LET t == trim(token)
    IN  /\ t # <<>>
        /\ \A k \in 1 .. Len(t) : \E d \in 1 .. 10 : t[k] = DecimalDigits[d]
        /\ parseInt(t).val < n

\* A text of exactly two such tokens separated by a single '+'.
WellFormed(text, n) ==
    /\ Len(split(text, "+")) = 2
    /\ IsIndex(split(text, "+")[1], n)
    /\ IsIndex(split(text, "+")[2], n)

\* C18: a submitted text is accepted only when it is exactly two tokens
\* separated by a single '+', each a non-negative decimal integer within
\* range; any other text leaves the rule set unchanged.
C18_OnlyWellFormedAccepted ==
    [][(handleAddRule /\ ~WellFormed(currentRule, divisions))
           => rules' = rules]_vars

\* How many times a line occurs in a layer.
Occurrences(lines, line) == Cardinality({k \in 1 .. Len(lines) : lines[k] = line})

\* A step after which some line of the manual layer is missing.
LineLost ==
    \E k \in 1 .. Len(drawnLines) :
        Occurrences(drawnLines', drawnLines[k]) < Occurrences(drawnLines, drawnLines[k])

\* C19 as stated: a line leaves the manual layer only through resetDrawing or
\* resetAll: a step after which a line is missing is one of these two.
C19_OnlyResetsRemoveLines ==
    [][LineLost => (handleResetDrawing \/ handleResetAll)]_vars

\* C19 amended: a line leaves the manual layer only through resetDrawing,
\* resetAll, undo or redo.
C19_OnlyResetsAndHistoryRemoveLines ==
    [][LineLost =>
           (handleResetDrawing \/ handleResetAll \/ handleUndo \/ handleRedo)]_vars

\* An undo or redo has replaced a layer holding a line that the current
\* layer, itself not empty, does not hold.
C19_Witness ==
    /\ drawnLines # <<>>
    /\ \/ /\ redoStack # <<>>
          /\ \E k \in 1 .. Len(Last(redoStack)) :
                 Occurrences(drawnLines, Last(redoStack)[k]) = 0
       \/ /\ undoStack # <<>>
          /\ redoStack # <<>>
          /\ \E k \in 1 .. Len(Last(undoStack)) :
                 Occurrences(drawnLines, Last(undoStack)[k]) = 0

\* C20: a completed freehand stroke (mouse down, one or more mouse moves,
\* mouse up, all in freehand mode) is undoable as one unit: the step that
\* ends it leaves a history in which one undo changes the drawing and one
\* redo after it brings the drawing back.
C20_FreehandStrokeIsUndoable ==
    [][\A p \in MousePoints :
          (stopDrawing(p) /\ isDrawing /\ freeDrawing /\ canvas.overlay # {})
              => /\ undo(HistoryNext).drawnLines # drawnLines'
                 /\ redo(undo(HistoryNext)).drawnLines = drawnLines']_vars

\* The rule handlers together with the history handlers: the divisions
\* slider at two stops, one rule text, Add Rule and Remove; the drawing mode
\* checkbox, the mouse events of a stroke, Undo, Redo and Reset Drawing.
NextFrame ==
    \/ \E n \in {MinDivisions, DefaultDivisions} : setDivisions(n)
    \/ \E text \in {Text20} : setCurrentRule(text)
    \/ handleAddRule
    \/ \E r \in ListedRules : handleRemoveRule(r)
    \/ toggleDrawingMode
    \/ \E p \in {NearPoint0} : startDrawing(p)
    \/ \E p \in {Centre} : draw(p)
    \/ \E p \in {Centre} : stopDrawing(p)
    \/ handleUndo
    \/ handleRedo
    \/ handleResetDrawing

SpecFrame == Init /\ [][NextFrame]_vars

\* A step of Undo, Redo, Reset Drawing or of a mouse event of a stroke.
HistoryStep ==
    \/ handleUndo
    \/ handleRedo
    \/ handleResetDrawing
    \/ \E p \in MousePoints : startDrawing(p) \/ draw(p) \/ stopDrawing(p)

\* A step that adds a rule, removes a rule or changes the division count.
RuleStep ==
    \/ handleAddRule
    \/ \E r \in RemovableRules : handleRemoveRule(r)
    \/ \E n \in DivisionCounts : setDivisions(n)

\* C21: undo, redo, resetDrawing and every stroke operation leave the rule
\* set and the division count unchanged; adding a rule, removing a rule and
\* changing the division count leave the manual layer, the undo stack and the
\* redo stack unchanged.
C21_RulesAndHistoryIndependent ==
    /\ [][HistoryStep => UNCHANGED <<rules, divisions>>]_vars
    /\ [][RuleStep => UNCHANGED <<drawnLines, undoStack, redoStack>>]_vars

\* Both sides have acted: a rule is listed on a circle of 3 divisions, and
\* the manual layer and both stacks hold something.
C21_Witness ==
    /\ rules # <<>>
    /\ divisions = MinDivisions
    /\ drawnLines # <<>>
    /\ undoStack # <<>>
    /\ redoStack # <<>>

====
